---- MODULE Spec2Model ----
(***************************************************************************)
(* A model of the resume processor of src/main.py: the text sanitizer      *)
(* clean_text, the accessors safe_get / safe_list_get, the extractor       *)
(* parse_resume, the renderer generate_pdf_reportlab and the two HTTP      *)
(* handlers upload_resume and download_pdf.                                *)
(*                                                                         *)
(* A Python str is a sequence of one-character strings.  A JSON/Python     *)
(* value is a record [t, n, s, items]: t is the type tag, n the number     *)
(* (or 0/1 for a bool), s the characters of a str, items the elements of   *)
(* a list (values) or the entries [k, v] of a dict, in insertion order.    *)
(***************************************************************************)
EXTENDS Integers, Sequences, FiniteSets, TLC

VARIABLES
    text, cleaned, recleaned, clean_pc,          \* clean_text applied once and twice
    reply, data, extract_pc,                     \* parse_resume and the field re-parsing
    record, story, render_pc,                    \* generate_pdf_reportlab
    requests, static, parse_calls, clock,        \* upload_resume
    download                                     \* download_pdf

clean_vars == <<text, cleaned, recleaned, clean_pc>>
extract_vars == <<reply, data, extract_pc>>
render_vars == <<record, story, render_pc>>
upload_vars == <<requests, parse_calls, clock>>
download_vars == <<download>>
vars == <<clean_vars, extract_vars, render_vars, upload_vars, static, download_vars>>

\* What the actions of one part of the program leave alone.
not_clean == <<extract_vars, render_vars, upload_vars, static, download_vars>>
not_extract == <<clean_vars, render_vars, upload_vars, static, download_vars>>
not_render == <<clean_vars, extract_vars, upload_vars, static, download_vars>>
not_upload == <<clean_vars, extract_vars, render_vars, download_vars>>
not_download == <<clean_vars, extract_vars, render_vars, upload_vars>>

-----------------------------------------------------------------------------
(* Bounds of the model. *)

\* Longest text handed to clean_text.
MaxTextLen == 3
\* Largest number handed to clean_text.
MaxNum == 11
\* Longest str the model returns as the value of a field.
MaxFieldLen == 3
\* Most entries of a section of a rendered record.
MaxItems == 1
\* The last second of the clock the uploads read.
MaxClock == 1
\* Longest filename asked of download_pdf.
MaxNameLen == 3

-----------------------------------------------------------------------------
(* Characters and Python's str operations. *)

Range(f) == {f[i] : i \in DOMAIN f}

Lowercase == <<"a", "b", "c", "d", "e", "f", "g", "h", "i", "j", "k", "l", "m",
               "n", "o", "p", "q", "r", "s", "t", "u", "v", "w", "x", "y", "z">>

Uppercase == <<"A", "B", "C", "D", "E", "F", "G", "H", "I", "J", "K", "L", "M",
               "N", "O", "P", "Q", "R", "S", "T", "U", "V", "W", "X", "Y", "Z">>

Digits == <<"0", "1", "2", "3", "4", "5", "6", "7", "8", "9">>

\* \w of Python's re on str, within ASCII: letters, digits and the underscore.
WordChars == Range(Lowercase) \cup Range(Uppercase) \cup Range(Digits) \cup {"_"}

\* \s of Python's re, and the characters str.strip() removes.
SpaceChars == {" ", "\t", "\n", "\r", "\f"}

\* The punctuation the character class of clean_text lists after \w and \s (its
\* last character, the degree sign, is outside ASCII and left out).
PunctChars == {"-", ".", ",", ";", ":", "(", ")", "@", "/", "\\", "&", "%", "$",
               "#", "!", "?", "+", "=", "*", "<", ">", "{", "}", "[", "]", "|",
               "~", "`", "\"", "'"}

\* A character the class [^\w\s\-.,;:()@/\\&%$#!?+=*<>{}[\]|~`"\'] does not match.
Allowed(c) == c \in WordChars \cup SpaceChars \cup PunctChars

\* re.sub(r'[^\w\s...]', '', text)
RemoveDisallowed(s) == SelectSeq(s, Allowed)

\* re.sub(r'\s+', ' ', text): every maximal run of whitespace becomes one space.
RECURSIVE CollapseFrom(_, _)
CollapseFrom(s, i) ==
    IF i > Len(s) THEN <<>>
    ELSE IF s[i] \in SpaceChars
         THEN (IF i > 1 /\ s[i - 1] \in SpaceChars THEN <<>> ELSE <<" ">>)
              \o CollapseFrom(s, i + 1)
         ELSE <<s[i]>> \o CollapseFrom(s, i + 1)

CollapseWhitespace(s) == CollapseFrom(s, 1)

\* str.strip()
RECURSIVE LStrip(_)
LStrip(s) == IF s # <<>> /\ Head(s) \in SpaceChars THEN LStrip(Tail(s)) ELSE s

RECURSIVE RStrip(_)
RStrip(s) ==
    IF s # <<>> /\ s[Len(s)] \in SpaceChars THEN RStrip(SubSeq(s, 1, Len(s) - 1)) ELSE s

Strip(s) == RStrip(LStrip(s))

\* str.lower() on one character and on a str.
LowerChar(c) ==
    IF \E i \in DOMAIN Uppercase : Uppercase[i] = c
    THEN Lowercase[CHOOSE i \in DOMAIN Uppercase : Uppercase[i] = c]
    ELSE c

Lower(s) == [i \in DOMAIN s |-> LowerChar(s[i])]

\* str.endswith(suffix)
EndsWith(s, suffix) ==
    /\ Len(s) >= Len(suffix)
    /\ SubSeq(s, Len(s) - Len(suffix) + 1, Len(s)) = suffix

\* str(n) of a natural number.
RECURSIVE DecimalDigits(_)
DecimalDigits(n) ==
    IF n < 10 THEN <<Digits[n + 1]>>
    ELSE DecimalDigits(n \div 10) \o <<Digits[(n % 10) + 1]>>

\* All the strs over the characters cs of length at most n.
RECURSIVE StrsUpTo(_, _)
StrsUpTo(cs, n) ==
    IF n = 0 THEN {<<>>}
    ELSE LET shorter == StrsUpTo(cs, n - 1)
         IN shorter \cup {Append(s, c) : s \in shorter, c \in cs}

-----------------------------------------------------------------------------
(* Python values. *)

Str(s) == [t |-> "str", n |-> 0, s |-> s, items |-> <<>>]
Num(n) == [t |-> "num", n |-> n, s |-> <<>>, items |-> <<>>]
Bool(b) == [t |-> "bool", n |-> IF b THEN 1 ELSE 0, s |-> <<>>, items |-> <<>>]
Null == [t |-> "null", n |-> 0, s |-> <<>>, items |-> <<>>]
List(items) == [t |-> "list", n |-> 0, s |-> <<>>, items |-> items]
Dict(items) == [t |-> "dict", n |-> 0, s |-> <<>>, items |-> items]

\* bool(value): None, 0, False, "" and the empty containers are falsy.
Truthy(v) ==
    CASE v.t = "null" -> FALSE
      [] v.t \in {"num", "bool"} -> v.n # 0
      [] v.t = "str" -> v.s # <<>>
      [] OTHER -> v.items # <<>>

\* str(value) of a scalar and of an empty container.
PyStr(v) ==
    CASE v.t = "str" -> v.s
      [] v.t = "null" -> <<"N", "o", "n", "e">>
      [] v.t = "num" -> DecimalDigits(v.n)
      [] v.t = "bool" -> IF v.n = 1 THEN <<"T", "r", "u", "e">>
                                    ELSE <<"F", "a", "l", "s", "e">>
      [] v.t = "list" -> <<"[", "]">>
      [] OTHER -> <<"{", "}">>

-----------------------------------------------------------------------------
(* clean_text *)

\* A clean_text that strips before it removes the disallowed characters.
clean_text_strip_first(value) ==
    IF ~Truthy(value) THEN <<>>
    ELSE CollapseWhitespace(RemoveDisallowed(Strip(PyStr(value))))

clean_text(value) ==
    IF ~Truthy(value) THEN <<>>
    ELSE Strip(CollapseWhitespace(RemoveDisallowed(PyStr(value))))

\* The characters the texts of the sanitizer's specification are made of: a word
\* character, two kinds of whitespace, a listed punctuation mark and a character
\* outside the class.
CleanChars == {"a", " ", "\t", "-", "^"}

CleanInputs ==
    {Str(s) : s \in StrsUpTo(CleanChars, MaxTextLen)}
        \cup {Num(n) : n \in 0..MaxNum} \cup {Null, Bool(TRUE), Bool(FALSE)}

InitClean ==
    /\ text \in CleanInputs
    /\ cleaned = <<>>
    /\ recleaned = <<>>
    /\ clean_pc = "start"

IdleClean ==
    /\ text = Null
    /\ cleaned = <<>>
    /\ recleaned = <<>>
    /\ clean_pc = "idle"

\* cleaned = clean_text(text)
Clean ==
    /\ clean_pc = "start"
    /\ cleaned' = clean_text(text)
    /\ clean_pc' = "cleaned"
    /\ UNCHANGED <<text, recleaned, not_clean>>

\* recleaned = clean_text(cleaned)
CleanAgain ==
    /\ clean_pc = "cleaned"
    /\ recleaned' = clean_text(Str(cleaned))
    /\ clean_pc' = "done"
    /\ UNCHANGED <<text, cleaned, not_clean>>

-----------------------------------------------------------------------------
(* Dicts, and the accessors safe_get and safe_list_get. *)

HasKey(d, key) == \E i \in DOMAIN d.items : d.items[i].k = key

\* dict.get(key, default)
Get(d, key, default) ==
    IF HasKey(d, key)
    THEN d.items[CHOOSE i \in DOMAIN d.items : d.items[i].k = key].v
    ELSE default

Entry(key, value) == [k |-> key, v |-> value]

\* json_repair.loads on a str, for the replies of the model: surrounding whitespace
\* is skipped; "[" opens a list whose elements are single characters (a digit is a
\* number, another character an unquoted string) up to "]" or, repairing a
\* truncated reply, the end; "{" opens an (empty) object; digits alone are a
\* number; anything else holds no JSON and gives the empty str.
RECURSIVE ListElements(_, _)
ListElements(s, i) ==
    IF i > Len(s) \/ s[i] = "]" THEN <<>>
    ELSE IF s[i] \in SpaceChars \cup {","} THEN ListElements(s, i + 1)
    ELSE IF \E n \in DOMAIN Digits : Digits[n] = s[i]
         THEN <<Num((CHOOSE n \in DOMAIN Digits : Digits[n] = s[i]) - 1)>>
              \o ListElements(s, i + 1)
         ELSE <<Str(<<s[i]>>)>> \o ListElements(s, i + 1)

RECURSIVE DecimalValue(_)
DecimalValue(s) ==
    IF s = <<>> THEN 0
    ELSE 10 * DecimalValue(SubSeq(s, 1, Len(s) - 1))
         + (CHOOSE n \in DOMAIN Digits : Digits[n] = s[Len(s)]) - 1

json_repair_loads(raw) ==
    LET s == Strip(raw)
    IN  IF s = <<>> THEN Str(<<>>)
        ELSE IF s[1] = "[" THEN List(ListElements(s, 2))
        ELSE IF s[1] = "{" THEN Dict(<<>>)
        ELSE IF \A i \in DOMAIN s : s[i] \in Range(Digits) THEN Num(DecimalValue(s))
        ELSE Str(<<>>)

safe_get(d, key) ==
    clean_text(IF d.t = "dict" THEN Get(d, key, Str(<<>>)) ELSE Str(<<>>))

safe_list_get(d, key) ==
    LET value == IF d.t = "dict" THEN Get(d, key, List(<<>>)) ELSE List(<<>>)
    IN  IF value.t = "list" THEN value.items
        ELSE IF value.t = "str"
             THEN LET parsed == json_repair_loads(value.s)
                  IN  IF parsed.t = "list" THEN parsed.items ELSE <<>>
             ELSE <<>>

-----------------------------------------------------------------------------
(* parse_resume, and the re-parsing of the string fields in upload_resume. *)

ScalarFields == {"first_name", "last_name", "email", "phone", "location", "skills", "summary"}
ListFields == {"work", "education", "projects", "achievements", "certifications"}
MappingFields == {"social", "other"}
SchemaFields == ScalarFields \cup ListFields \cup MappingFields

\* "Parsing failed: " followed by str(e)
ParsingFailed(message) ==
    <<"P", "a", "r", "s", "i", "n", "g", " ", "f", "a", "i", "l", "e", "d", ":", " ">>
        \o message

\* A default structure that leaves the error message out.
DefaultRecord_no_error(message) ==
    Dict(<<Entry("first_name", Str(<<>>)), Entry("last_name", Str(<<>>)),
           Entry("email", Str(<<>>)), Entry("phone", Str(<<>>)),
           Entry("location", Str(<<>>)), Entry("social", Dict(<<>>)),
           Entry("skills", Str(<<>>)), Entry("work", List(<<>>)),
           Entry("education", List(<<>>)), Entry("projects", List(<<>>)),
           Entry("certifications", List(<<>>)), Entry("achievements", List(<<>>)),
           Entry("other", Dict(<<>>)), Entry("summary", Str(<<>>))>>)

\* The safe default structure of the except branch.
DefaultRecord(message) ==
    Dict(<<Entry("first_name", Str(<<>>)), Entry("last_name", Str(<<>>)),
           Entry("email", Str(<<>>)), Entry("phone", Str(<<>>)),
           Entry("location", Str(<<>>)), Entry("social", Dict(<<>>)),
           Entry("skills", Str(<<>>)), Entry("work", List(<<>>)),
           Entry("education", List(<<>>)), Entry("projects", List(<<>>)),
           Entry("certifications", List(<<>>)), Entry("achievements", List(<<>>)),
           Entry("other", Dict(<<>>)), Entry("summary", Str(<<>>)),
           Entry("parsing_error", Str(ParsingFailed(message)))>>)

\* {k: clean_text(v) for k, v in value.items()}
CleanDict(value) ==
    Dict([i \in DOMAIN value.items |->
            Entry(value.items[i].k, Str(clean_text(value.items[i].v)))])

\* One pass of the loop "Clean all text fields" over a top-level value.
CleanValue(value) ==
    CASE value.t = "str" -> Str(clean_text(value))
      [] value.t = "dict" -> CleanDict(value)
      [] value.t = "list" ->
            List([i \in DOMAIN value.items |->
                    IF value.items[i].t = "dict" THEN CleanDict(value.items[i])
                    ELSE Str(clean_text(value.items[i]))])
      [] OTHER -> value

\* str(e) of the AttributeError parsed_data.items() raises on anything but a dict.
NoItemsMessage == <<"i", "t", "e", "m", "s">>

\* call.ok: generate_content returned a reply with a text part, and call.parsed is
\* what json_repair.loads made of that text; otherwise call.error is str(e) of the
\* exception the call raised.
parse_resume(call) ==
    IF ~call.ok THEN DefaultRecord(call.error)
    ELSE IF call.parsed.t # "dict" THEN DefaultRecord(NoItemsMessage)
    ELSE Dict([i \in DOMAIN call.parsed.items |->
                 Entry(call.parsed.items[i].k, CleanValue(call.parsed.items[i].v))])

\* The two loops "Parse JSON string fields to actual objects/arrays".
ReparseField(key, value) ==
    IF value.t # "str" THEN value
    ELSE IF key \in ListFields
         THEN LET parsed == json_repair_loads(value.s)
              IN  IF parsed.t = "list" THEN parsed ELSE List(<<>>)
    ELSE IF key = "other"
         THEN LET parsed == json_repair_loads(value.s)
              IN  IF parsed.t = "dict" THEN parsed ELSE Dict(<<>>)
    ELSE value

ReparseFields(d) ==
    Dict([i \in DOMAIN d.items |->
            Entry(d.items[i].k, ReparseField(d.items[i].k, d.items[i].v))])
-----------------------------------------------------------------------------
(* generate_pdf_reportlab: the story it hands to doc.build.  A flowable is a     *)
(* record [kind, text, rows]; the text of a Paragraph is its characters, with    *)
(* the markup and the fixed words of the format strings as single elements.      *)

Heading(title) == [kind |-> "Heading", text |-> <<title>>, rows |-> <<>>]
Paragraph(chars) == [kind |-> "Paragraph", text |-> chars, rows |-> <<>>]
Table(rows) == [kind |-> "Table", text |-> <<>>, rows |-> rows]
Spacer == [kind |-> "Spacer", text |-> <<>>, rows |-> <<>>]
Row(label, value) == [label |-> label, value |-> value]

RECURSIVE Flatten(_)
Flatten(seqs) == IF seqs = <<>> THEN <<>> ELSE Head(seqs) \o Flatten(Tail(seqs))

If(condition, flowables) == IF condition THEN flowables ELSE <<>>

TitleBlock == <<[kind |-> "Title", text |-> <<"Processed Resume">>, rows |-> <<>>], Spacer>>

\* f"{first} {last}".strip()
FullName(d) == Strip(safe_get(d, "first_name") \o <<" ">> \o safe_get(d, "last_name"))

ContactRows(d) ==
    If(Strip(FullName(d)) # <<>>, <<Row("Name:", FullName(d))>>)
        \o If(safe_get(d, "email") # <<>>, <<Row("Email:", safe_get(d, "email"))>>)
        \o If(safe_get(d, "phone") # <<>>, <<Row("Phone:", safe_get(d, "phone"))>>)
        \o If(safe_get(d, "location") # <<>>, <<Row("Location:", safe_get(d, "location"))>>)

ContactBlock(d) ==
    If(Strip(FullName(d)) # <<>>,
       <<Heading("Contact Information")>>
           \o If(ContactRows(d) # <<>>, <<Table(ContactRows(d)), Spacer>>))

\* The rows of a label/value table over the entries of a mapping: social keeps an
\* entry whose link is truthy and cleans to a non-empty text, other an entry whose
\* value cleans to a non-empty text.  The label is the key (title-cased or cleaned)
\* and a colon.
MappingRows(mapping, needs_truthy) ==
    Flatten([i \in DOMAIN mapping.items |->
               LET e == mapping.items[i]
               IN  If((needs_truthy => Truthy(e.v)) /\ clean_text(e.v) # <<>>,
                      <<Row(e.k, clean_text(e.v))>>)])

SocialBlock(d) ==
    LET social == Get(d, "social", Dict(<<>>))
    IN  If(Truthy(social) /\ social.t = "dict",
           If(MappingRows(social, TRUE) # <<>>,
              <<Heading("Social Links"), Table(MappingRows(social, TRUE)), Spacer>>))

TextBlock(d, key, title) ==
    If(safe_get(d, key) # <<>>,
       <<Heading(title), Paragraph(safe_get(d, key)), Spacer>>)

\* f"{start_date} - {end_date}" if both, else whichever there is, in <i></i>.
DateLine(entry) ==
    LET start_date == safe_get(entry, "startDate")
        end_date == safe_get(entry, "endDate")
    IN  If(start_date # <<>> \/ end_date # <<>>,
           <<Paragraph(<<"<i>">>
                \o (IF start_date # <<>> /\ end_date # <<>>
                    THEN start_date \o <<" - ">> \o end_date
                    ELSE IF start_date # <<>> THEN start_date ELSE end_date)
                \o <<"</i>">>)>>)

\* The header of a work or education entry: both parts around the joiner, or the
\* one there is, in <b></b>.
EntryHeader(first, joiner, second) ==
    IF first # <<>> /\ second # <<>>
    THEN <<"<b>">> \o first \o <<"</b>", joiner, "<b>">> \o second \o <<"</b>">>
    ELSE <<"<b>">> \o (IF first # <<>> THEN first ELSE second) \o <<"</b>">>

JobBlock(job) ==
    LET company == safe_get(job, "company")
        title == safe_get(job, "title")
        description == safe_get(job, "description")
    IN  If(job.t = "dict" /\ (company # <<>> \/ title # <<>>),
           <<Paragraph(EntryHeader(title, " at ", company))>>
               \o DateLine(job)
               \o If(description # <<>>, <<Paragraph(description)>>)
               \o <<Spacer>>)

WorkBlock(d) ==
    LET work == safe_list_get(d, "work")
    IN  If(work # <<>>, <<Heading("Work Experience")>> \o Flatten([i \in DOMAIN work |-> JobBlock(work[i])]))

EduBlock(edu) ==
    LET degree == safe_get(edu, "degree")
        institution == safe_get(edu, "institution")
        gpa == safe_get(edu, "percentage/gpa")
    IN  If(edu.t = "dict" /\ (degree # <<>> \/ institution # <<>>),
           <<Paragraph(EntryHeader(degree, " - ", institution))>>
               \o DateLine(edu)
               \o If(gpa # <<>>, <<Paragraph(<<"GPA/Percentage: ">> \o gpa)>>)
               \o <<Spacer>>)

EducationBlock(d) ==
    LET education == safe_list_get(d, "education")
    IN  If(education # <<>>, <<Heading("Education")>> \o Flatten([i \in DOMAIN education |-> EduBlock(education[i])]))

ProjectBlock(project) ==
    LET name == safe_get(project, "name")
        description == safe_get(project, "description")
    IN  If(project.t = "dict" /\ name # <<>>,
           <<Paragraph(<<"<b>">> \o name \o <<"</b>">>)>>
               \o If(description # <<>>, <<Paragraph(description)>>)
               \o <<Spacer>>)

ProjectsBlock(d) ==
    LET projects == safe_list_get(d, "projects")
    IN  If(projects # <<>>, <<Heading("Projects")>> \o Flatten([i \in DOMAIN projects |-> ProjectBlock(projects[i])]))

\* A bullet line ("* " standing for the bullet character and a space): the name,
\* or the name, a colon and the description.
BulletBlock(item) ==
    LET name == safe_get(item, "name")
        description == safe_get(item, "description")
    IN  If(item.t = "dict" /\ name # <<>>,
           <<Paragraph(<<"* ">> \o name
                \o (IF description # <<>> THEN <<": ">> \o description ELSE <<>>))>>)

BulletsBlock(d, key, title) ==
    LET items == safe_list_get(d, key)
    IN  If(items # <<>>, <<Heading(title)>> \o Flatten([i \in DOMAIN items |-> BulletBlock(items[i])]))

OtherBlock(d) ==
    LET other == Get(d, "other", Dict(<<>>))
    IN  If(Truthy(other) /\ other.t = "dict",
           If(MappingRows(other, FALSE) # <<>>,
              <<Heading("Other Information"), Table(MappingRows(other, FALSE))>>))

\* The story generate_pdf_reportlab appends, section after section.
Story(d) ==
    TitleBlock
        \o ContactBlock(d)
        \o SocialBlock(d)
        \o TextBlock(d, "summary", "Summary")
        \o TextBlock(d, "skills", "Skills")
        \o WorkBlock(d)
        \o EducationBlock(d)
        \o ProjectsBlock(d)
        \o BulletsBlock(d, "certifications", "Certifications")
        \o BulletsBlock(d, "achievements", "Achievements")
        \o OtherBlock(d)
-----------------------------------------------------------------------------
(* The extractor on the replies of the model. *)

\* The characters of a str field of a reply: a word character, the openers of a
\* JSON list and object, a digit and a character outside clean_text's class.
FieldChars == {"a", "[", "{", "5", "^"}

LeafValues ==
    {Str(<<>>), Str(<<"a">>), Str(<<" ", "^">>), Num(0), Num(5), Null, Bool(TRUE)}

FieldValues ==
    {Str(s) : s \in StrsUpTo(FieldChars, MaxFieldLen)}
        \cup {Num(0), Num(5), Null, Bool(TRUE), Bool(FALSE), Dict(<<>>), List(<<>>)}
        \cup {Dict(<<Entry("linkedin", leaf)>>) : leaf \in LeafValues}
        \cup {List(<<leaf>>) : leaf \in LeafValues}
        \cup {List(<<Dict(<<Entry("name", leaf)>>)>>) : leaf \in LeafValues}

\* What json_repair.loads makes of the text of a reply: an object with one field
\* (the loop of parse_resume treats each field on its own), or no object at all.
ParsedReplies ==
    {Dict(<<Entry(key, value)>>) : key \in SchemaFields \cup {"hobbies"}, value \in FieldValues}
        \cup {Dict(<<>>), Str(<<>>), List(<<>>), Num(5), Null}

Replies ==
    {[ok |-> TRUE, parsed |-> p, error |-> <<>>] : p \in ParsedReplies}
        \cup {[ok |-> FALSE, parsed |-> Null, error |-> e] : e \in {<<>>, <<"e">>}}

InitExtract ==
    /\ reply \in Replies
    /\ data = Null
    /\ extract_pc = "start"

IdleExtract ==
    /\ reply = [ok |-> FALSE, parsed |-> Null, error |-> <<>>]
    /\ data = Null
    /\ extract_pc = "idle"

\* data = parse_resume(pdf_bytes)
ParseResume ==
    /\ extract_pc = "start"
    /\ data' = parse_resume(reply)
    /\ extract_pc' = "parsed"
    /\ UNCHANGED <<reply, not_extract>>

\* The re-parsing of the string fields that follows in upload_resume.
Reparse ==
    /\ extract_pc = "parsed"
    /\ data' = ReparseFields(data)
    /\ extract_pc' = "normalized"
    /\ UNCHANGED <<reply, not_extract>>

-----------------------------------------------------------------------------
(* The renderer on normalized records. *)

TextValues == {<<>>, <<"a">>}

ContactRecords ==
    {Dict(<<Entry("first_name", Str(f)), Entry("last_name", Str(l)),
            Entry("email", Str(e)), Entry("phone", Str(p)), Entry("location", Str(c))>>) :
        f \in TextValues, l \in TextValues, e \in TextValues, p \in TextValues,
        c \in TextValues}

WorkKeys == <<"company", "title", "startDate", "endDate", "description">>
EducationKeys == <<"degree", "institution", "startDate", "endDate", "percentage/gpa">>
NamedKeys == <<"name", "description">>

\* The entries of a section: every key with an empty or a non-empty text, or a
\* bare text instead of a record.
SectionItems(keys) ==
    {Dict([i \in DOMAIN keys |-> Entry(keys[i], Str(f[i]))]) : f \in [DOMAIN keys -> TextValues]}
        \cup {Str(<<"a">>)}

RECURSIVE ListsUpTo(_, _)
ListsUpTo(items, n) ==
    IF n = 0 THEN {<<>>}
    ELSE LET shorter == ListsUpTo(items, n - 1)
         IN shorter \cup {Append(l, item) : l \in shorter, item \in items}

SectionRecords(key, keys) ==
    {Dict(<<Entry(key, List(l))>>) : l \in ListsUpTo(SectionItems(keys), MaxItems)}

MappingRecords(key) ==
    {Dict(<<Entry(key, Dict(<<Entry("label", Str(v))>>))>>) : v \in TextValues}
        \cup {Dict(<<Entry(key, Dict(<<>>))>>), Dict(<<Entry(key, Str(<<"a">>))>>)}

RenderRecords ==
    ContactRecords
        \cup SectionRecords("work", WorkKeys)
        \cup SectionRecords("education", EducationKeys)
        \cup SectionRecords("projects", NamedKeys)
        \cup SectionRecords("certifications", NamedKeys)
        \cup SectionRecords("achievements", NamedKeys)
        \cup MappingRecords("social")
        \cup MappingRecords("other")
        \cup {Dict(<<Entry(key, Str(<<"a">>))>>) : key \in {"summary", "skills"}}

InitRender ==
    /\ record \in RenderRecords
    /\ story = <<>>
    /\ render_pc = "start"

IdleRender ==
    /\ record = Null
    /\ story = <<>>
    /\ render_pc = "idle"

\* generate_pdf_reportlab(data, path): the story is appended, then doc.build
\* writes it or raises, and the function returns True or False.
GeneratePdf ==
    /\ render_pc = "start"
    /\ story' = Story(record)
    /\ \E built \in BOOLEAN :
          render_pc' = IF built THEN "returned_true" ELSE "returned_false"
    /\ UNCHANGED <<record, not_render>>
-----------------------------------------------------------------------------
(* Filenames and paths. *)

PdfExtension == <<".", "p", "d", "f">>

\* re.sub(r'[^\w\-_.]', '_', filename)
SafeFilename(filename) ==
    [i \in DOMAIN filename |->
        IF filename[i] \in WordChars \cup {"-", "_", "."} THEN filename[i] ELSE "_"]

TwoDigits(n) == <<Digits[(n \div 10) + 1], Digits[(n % 10) + 1]>>

\* A timestamp that writes the time of day with colons, as isoformat() does.
Timestamp_with_colons(seconds) ==
    <<"2", "0", "2", "5", "0", "1", "0", "1", "_">>
        \o TwoDigits(seconds \div 3600) \o <<":">>
        \o TwoDigits((seconds \div 60) % 60) \o <<":">>
        \o TwoDigits(seconds % 60)

\* datetime.now().strftime("%Y%m%d_%H%M%S"), the clock counting the seconds of one day.
Timestamp(seconds) ==
    <<"2", "0", "2", "5", "0", "1", "0", "1", "_">>
        \o TwoDigits(seconds \div 3600)
        \o TwoDigits((seconds \div 60) % 60)
        \o TwoDigits(seconds % 60)

\* str(uuid.uuid4()): three of its values, the first two alike in their first
\* eight characters.
Uuid4Values ==
    {<<"3", "f", "a", "8", "5", "f", "6", "4", "-", "5", "7", "1", "7", "-", "4", "5", "6", "2",
       "-", "b", "3", "f", "c", "-", "2", "c", "9", "6", "3", "f", "6", "6", "a", "f", "a", "6">>,
     <<"3", "f", "a", "8", "5", "f", "6", "4", "-", "0", "0", "0", "0", "-", "4", "0", "0", "0",
       "-", "8", "0", "0", "0", "-", "0", "0", "0", "0", "0", "0", "0", "0", "0", "0", "0", "1">>,
     <<"9", "b", "2", "d", "0", "c", "1", "e", "-", "5", "7", "1", "7", "-", "4", "5", "6", "2",
       "-", "b", "3", "f", "c", "-", "2", "c", "9", "6", "3", "f", "6", "6", "a", "f", "a", "6">>}

\* str(uuid.uuid4())[:8]
UniqueId(uuid) == SubSeq(uuid, 1, 8)

\* A filename that leaves the unique id out.
PdfFilename_no_id(timestamp, unique_id, safe_filename) ==
    <<"r", "e", "s", "u", "m", "e", "_">> \o timestamp \o <<"_">> \o safe_filename

\* f"resume_{timestamp}_{unique_id}_{safe_filename}"
PdfFilename(timestamp, unique_id, safe_filename) ==
    <<"r", "e", "s", "u", "m", "e", "_">> \o timestamp \o <<"_">> \o unique_id
        \o <<"_">> \o safe_filename

StaticDir == <<"s", "t", "a", "t", "i", "c">>

\* f"static/{pdf_filename}"
PdfPath(pdf_filename) == StaticDir \o <<"/">> \o pdf_filename

\* The components of a path between its slashes.
RECURSIVE Split(_)
Split(path) ==
    IF \A i \in DOMAIN path : path[i] # "/" THEN <<path>>
    ELSE LET cut == CHOOSE i \in DOMAIN path :
                        path[i] = "/" /\ \A j \in 1..(i - 1) : path[j] # "/"
         IN <<SubSeq(path, 1, cut - 1)>> \o Split(SubSeq(path, cut + 1, Len(path)))

\* The directory entry a relative path denotes, as the names leading to it from the
\* working directory: an empty component and "." stay, ".." goes up.
RECURSIVE Walk(_, _)
Walk(at, components) ==
    IF components = <<>> THEN at
    ELSE LET c == Head(components)
         IN  IF c = <<>> \/ c = <<".">> THEN Walk(at, Tail(components))
             ELSE IF c = <<".", ".">>
                  THEN Walk(IF at = <<>> THEN <<>> ELSE SubSeq(at, 1, Len(at) - 1),
                            Tail(components))
             ELSE Walk(Append(at, c), Tail(components))

Resolve(path) == Walk(<<>>, Split(path))

-----------------------------------------------------------------------------
(* upload_resume *)

Requests == {1, 2}

UploadNames ==
    {<<>>, <<"a", ".", "t", "x", "t">>, <<"p", "d", "f">>,
     <<"a">> \o PdfExtension, <<"A", ".", "P", "D", "F">>,
     <<"a", " ", "b">> \o PdfExtension, <<"a", "_", "b">> \o PdfExtension,
     <<".", ".", "/", "a">> \o PdfExtension}

UploadSizes == {0, 1, 10 * 1024 * 1024, 10 * 1024 * 1024 + 1}

\* A validation that forgets the empty body.
ValidationError_no_empty_check(filename, size) ==
    IF filename = <<>> THEN "No filename provided"
    ELSE IF ~EndsWith(Lower(filename), PdfExtension) THEN "Only PDF files are allowed"
    ELSE IF size > 10 * 1024 * 1024 THEN "File too large. Maximum size is 10MB"
    ELSE ""

\* The detail of the HTTPException the validation raises, "" when it raises none.
ValidationError(filename, size) ==
    IF filename = <<>> THEN "No filename provided"
    ELSE IF ~EndsWith(Lower(filename), PdfExtension) THEN "Only PDF files are allowed"
    ELSE IF size = 0 THEN "Empty file uploaded"
    ELSE IF size > 10 * 1024 * 1024 THEN "File too large. Maximum size is 10MB"
    ELSE ""

NoRequest ==
    [pc |-> "idle", filename |-> <<>>, size |-> 0, status |-> 0, detail |-> "",
     timestamp |-> <<>>, unique_id |-> <<>>, safe_filename |-> <<>>,
     pdf_filename |-> <<>>, pdf_path |-> <<>>, rendered |-> "no", fallback |-> "no",
     pdf_url |-> <<>>, download_url |-> <<>>]

InitUpload ==
    /\ requests = [r \in Requests |-> NoRequest]
    /\ parse_calls = {}
    /\ clock = 0

IdleUpload ==
    /\ requests = [r \in Requests |-> NoRequest]
    /\ parse_calls = {}
    /\ clock = 0

\* A second passes.
Tick ==
    /\ clock < MaxClock
    /\ clock' = clock + 1
    /\ UNCHANGED <<requests, parse_calls, static, not_upload>>

\* The validation of an upload: a 400 with its detail, or on to parse_resume.
Validate(r) ==
    /\ requests[r].pc = "idle"
    /\ \E filename \in UploadNames, size \in UploadSizes :
          requests' = [requests EXCEPT ![r] =
              IF ValidationError(filename, size) # ""
              THEN [@ EXCEPT !.pc = "done", !.filename = filename, !.size = size,
                             !.status = 400,
                             !.detail = ValidationError(filename, size)]
              ELSE [@ EXCEPT !.pc = "parse", !.filename = filename, !.size = size]]
    /\ UNCHANGED <<parse_calls, clock, static, not_upload>>

\* parse_resume is called, the string fields are re-parsed and the unique
\* filename is derived.
Parse(r) ==
    /\ requests[r].pc = "parse"
    /\ parse_calls' = parse_calls \cup {r}
    /\ \E uuid \in Uuid4Values :
          LET timestamp == Timestamp(clock)
              safe_filename == SafeFilename(requests[r].filename)
              pdf_filename == PdfFilename(timestamp, UniqueId(uuid), safe_filename)
          IN  requests' = [requests EXCEPT ![r] =
                  [@ EXCEPT !.pc = "render", !.timestamp = timestamp,
                            !.unique_id = UniqueId(uuid),
                            !.safe_filename = safe_filename,
                            !.pdf_filename = pdf_filename,
                            !.pdf_path = PdfPath(pdf_filename)]]
    /\ UNCHANGED <<clock, static, not_upload>>

\* The path of the download route before its {filename}.
DownloadRoute == <<"/", "d", "o", "w", "n", "l", "o", "a", "d", "-", "p", "d", "f", "/">>

\* The response of a processed upload.
Responded(request) ==
    [request EXCEPT !.pc = "done", !.status = 200,
                    !.detail = "Resume processed successfully",
                    !.pdf_url = <<"/">> \o StaticDir \o <<"/">> \o request.pdf_filename,
                    !.download_url = DownloadRoute \o request.pdf_filename]

\* A renderer whose failure goes straight to the response.
Render_no_fallback(r) ==
    /\ requests[r].pc = "render"
    /\ \E built \in BOOLEAN :
          IF built
          THEN /\ static' = static \cup {requests[r].pdf_filename}
               /\ requests' = [requests EXCEPT ![r] = Responded([@ EXCEPT !.rendered = "ok"])]
          ELSE /\ static' = static
               /\ requests' = [requests EXCEPT ![r] = Responded([@ EXCEPT !.rendered = "failed"])]
    /\ UNCHANGED <<parse_calls, clock, not_upload>>

\* generate_pdf_reportlab writes the file and the handler responds, or it returns
\* False and the handler goes on to the fallback.
Render(r) ==
    /\ requests[r].pc = "render"
    /\ \E built \in BOOLEAN :
          IF built
          THEN /\ static' = static \cup {requests[r].pdf_filename}
               /\ requests' = [requests EXCEPT ![r] = Responded([@ EXCEPT !.rendered = "ok"])]
          ELSE /\ static' = static
               /\ requests' = [requests EXCEPT ![r] =
                                  [@ EXCEPT !.pc = "fallback", !.rendered = "failed"]]
    /\ UNCHANGED <<parse_calls, clock, not_upload>>

\* The fallback document: written, and the handler responds, or its build raises
\* and the handler raises the 500.
Fallback(r) ==
    /\ requests[r].pc = "fallback"
    /\ \E built \in BOOLEAN :
          IF built
          THEN /\ static' = static \cup {requests[r].pdf_filename}
               /\ requests' = [requests EXCEPT ![r] = Responded([@ EXCEPT !.fallback = "ok"])]
          ELSE /\ static' = static
               /\ requests' = [requests EXCEPT ![r] =
                                  [@ EXCEPT !.pc = "done", !.fallback = "failed",
                                            !.status = 500,
                                            !.detail = "Failed to generate PDF"]]
    /\ UNCHANGED <<parse_calls, clock, not_upload>>

-----------------------------------------------------------------------------
(* download_pdf *)

\* The characters of the filenames asked for.
DownloadChars == {"a", ".", "\\", "/"}

\* A file an upload wrote, and a file put there by hand.
StoredFiles ==
    {PdfFilename(Timestamp(0), <<"3", "f", "a", "8", "5", "f", "6", "4">>,
                 <<"a">> \o PdfExtension),
     <<"a">>}

DownloadNames == (StrsUpTo(DownloadChars, MaxNameLen) \ {<<>>}) \cup StoredFiles

NoDownload ==
    [filename |-> <<>>, safe_filename |-> <<>>, pdf_path |-> <<>>, status |-> 0]

InitDownload ==
    /\ static \in SUBSET StoredFiles
    /\ download = NoDownload

IdleDownload == download = NoDownload

\* os.path.exists(path), the working directory holding the directory static.
Exists(path) ==
    LET at == Resolve(path)
    IN  \/ at = <<>>
        \/ at = <<StaticDir>>
        \/ Len(at) = 2 /\ at[1] = StaticDir /\ at[2] \in static

\* The path is a regular file (FileResponse raises on anything else).
IsFile(path) ==
    LET at == Resolve(path)
    IN  Len(at) = 2 /\ at[1] = StaticDir /\ at[2] \in static

\* GET /download-pdf/{filename}: the route takes a non-empty filename without a
\* slash; the handler sanitizes it and answers 404, the file, or (FileResponse on
\* a directory) a 500.
download_pdf(filename) ==
    LET safe_filename == SafeFilename(filename)
        pdf_path == PdfPath(safe_filename)
    IN  [filename |-> filename, safe_filename |-> safe_filename, pdf_path |-> pdf_path,
         status |-> IF ~Exists(pdf_path) THEN 404
                    ELSE IF IsFile(pdf_path) THEN 200 ELSE 500]

\* The filename the route takes from the path of a request: what follows
\* /download-pdf/.
RouteFilename(url) == SubSeq(url, Len(DownloadRoute) + 1, Len(url))

\* The route matches a path that starts with /download-pdf/ and goes on with a
\* non-empty filename without a slash.
RouteMatches(url) ==
    /\ Len(url) > Len(DownloadRoute)
    /\ SubSeq(url, 1, Len(DownloadRoute)) = DownloadRoute
    /\ \A i \in DOMAIN RouteFilename(url) : RouteFilename(url)[i] # "/"

DownloadPdf ==
    \E filename \in DownloadNames :
        /\ RouteMatches(DownloadRoute \o filename)
        /\ download' = download_pdf(RouteFilename(DownloadRoute \o filename))
        /\ UNCHANGED <<static, not_download>>

\* The client of a processed upload requests the download_url of its response.
FollowDownloadUrl(r) ==
    /\ requests[r].pc = "done"
    /\ requests[r].status = 200
    /\ RouteMatches(requests[r].download_url)
    /\ download' = download_pdf(RouteFilename(requests[r].download_url))
    /\ UNCHANGED <<static, not_download>>

-----------------------------------------------------------------------------
(* The specifications. *)

\* upload_resume, two requests at a time.
Init == InitUpload /\ static = {} /\ IdleDownload /\ IdleClean /\ IdleExtract /\ IdleRender

Next ==
    \/ Tick
    \/ \E r \in Requests : Validate(r)
    \/ \E r \in Requests : Parse(r)
    \/ \E r \in Requests : Render(r)
    \/ \E r \in Requests : Fallback(r)

Spec == Init /\ [][Next]_vars

\* download_pdf on an output directory.
DownloadInit == InitDownload /\ IdleUpload /\ IdleClean /\ IdleExtract /\ IdleRender

NextDownload == DownloadPdf

SpecDownload == DownloadInit /\ [][NextDownload]_vars

\* One upload and the download of what its response links to.
Uploader == 1

NextRoundTrip ==
    \/ Tick
    \/ Validate(Uploader)
    \/ Parse(Uploader)
    \/ Render(Uploader)
    \/ Fallback(Uploader)
    \/ FollowDownloadUrl(Uploader)

SpecRoundTrip == Init /\ [][NextRoundTrip]_vars

\* clean_text on the values it is handed.
CleanInit ==
    InitClean /\ IdleExtract /\ IdleRender /\ IdleUpload /\ static = {} /\ IdleDownload

NextClean == Clean \/ CleanAgain

SpecClean == CleanInit /\ [][NextClean]_vars

\* parse_resume and the re-parsing on the replies of the model.
ExtractInit ==
    InitExtract /\ IdleClean /\ IdleRender /\ IdleUpload /\ static = {} /\ IdleDownload

NextExtract == ParseResume \/ Reparse

SpecExtract == ExtractInit /\ [][NextExtract]_vars

\* generate_pdf_reportlab on normalized records.
RenderInit ==
    InitRender /\ IdleClean /\ IdleExtract /\ IdleUpload /\ static = {} /\ IdleDownload

NextRender == GeneratePdf

SpecRender == RenderInit /\ [][NextRender]_vars
-----------------------------------------------------------------------------
(* The claims about upload_resume, checked under Spec. *)

TenMiB == 10 * 1024 * 1024

\* The upload breaks one of the rules of the validation.
ViolatesValidation(request) ==
    \/ request.filename = <<>>
    \/ ~EndsWith(Lower(request.filename), PdfExtension)
    \/ request.size = 0
    \/ request.size > TenMiB

ValidationDetails ==
    {"No filename provided", "Only PDF files are allowed", "Empty file uploaded",
     "File too large. Maximum size is 10MB"}

\* C1: an upload that violates the validation (no filename, a filename that does
\* not end in .pdf, an empty body, a body over 10 MiB) is answered 400 with a
\* descriptive detail, parse_resume is never called for it and it writes no file.
C1_InvalidUploadRejected ==
    \A r \in Requests :
        (requests[r].pc # "idle" /\ ViolatesValidation(requests[r])) =>
            /\ requests[r].pc = "done"
            /\ requests[r].status = 400
            /\ requests[r].detail \in ValidationDetails
            /\ (requests[r].filename # <<>>
                    /\ ~EndsWith(Lower(requests[r].filename), PdfExtension)
                  => requests[r].detail = "Only PDF files are allowed")
            /\ r \notin parse_calls
            /\ requests[r].pdf_path = <<>>
            /\ requests[r].rendered = "no"
            /\ requests[r].fallback = "no"

\* An empty body under a PDF filename was rejected while the other request went
\* through parse_resume.
C1_Witness ==
    \E r \in Requests :
        /\ requests[r].pc = "done"
        /\ EndsWith(Lower(requests[r].filename), PdfExtension)
        /\ requests[r].size = 0
        /\ requests[r].status = 400
        /\ parse_calls = Requests \ {r}

\* C4 as stated: every upload that passes the validation ends with a PDF written
\* at the generated path and a response that references it.
C4_AlwaysEndsWithPdf ==
    \A r \in Requests :
        (requests[r].pc = "done" /\ ~ViolatesValidation(requests[r])) =>
            /\ requests[r].status = 200
            /\ requests[r].pdf_filename \in static
            /\ requests[r].pdf_url = <<"/">> \o requests[r].pdf_path

\* C4 as amended: when generate_pdf_reportlab returns failure the fallback is
\* invoked before the response; when the renderer or the fallback succeeds the
\* request ends 200 with the PDF written at the generated path and referenced by
\* the response; when the fallback fails too it ends 500 and references no file.
C4_FallbackBeforeResponse ==
    \A r \in Requests :
        (requests[r].pc = "done" /\ ~ViolatesValidation(requests[r])) =>
            /\ requests[r].rendered # "no"
            /\ requests[r].rendered = "failed" => requests[r].fallback # "no"
            /\ requests[r].rendered = "ok" => requests[r].fallback = "no"
            /\ (requests[r].rendered = "ok" \/ requests[r].fallback = "ok") =>
                  /\ requests[r].status = 200
                  /\ requests[r].pdf_filename \in static
                  /\ requests[r].pdf_url = <<"/">> \o requests[r].pdf_path
            /\ (requests[r].rendered = "failed" /\ requests[r].fallback = "failed") =>
                  /\ requests[r].status = 500
                  /\ requests[r].pdf_url = <<>>
                  /\ requests[r].download_url = <<>>

\* The renderer failed, the fallback wrote the file and the response references it.
C4_Witness ==
    \E r \in Requests :
        /\ requests[r].pc = "done"
        /\ requests[r].rendered = "failed"
        /\ requests[r].fallback = "ok"
        /\ requests[r].status = 200
        /\ requests[r].pdf_filename \in static

\* The request has derived its output path.
Named(r) == requests[r].pdf_path # <<>>

\* C6 as stated: the output paths of any two uploads are distinct.
C6_PathsDistinct ==
    \A r1, r2 \in Requests :
        (r1 # r2 /\ Named(r1) /\ Named(r2)) => requests[r1].pdf_path # requests[r2].pdf_path

\* C6 as amended: the output paths of two uploads are the same exactly when the
\* two drew the same 8-character identifier in the same second for filenames that
\* sanitize to the same name; uploads that differ in one of the three write
\* distinct paths.
C6_PathsEqualOnlyOnFullCollision ==
    \A r1, r2 \in Requests :
        (r1 # r2 /\ Named(r1) /\ Named(r2)) =>
            (requests[r1].pdf_path = requests[r2].pdf_path
                <=> /\ requests[r1].timestamp = requests[r2].timestamp
                    /\ requests[r1].unique_id = requests[r2].unique_id
                    /\ requests[r1].safe_filename = requests[r2].safe_filename)

\* Two uploads of the same filename in the same second, with different
\* identifiers, have written different paths.
C6_Witness ==
    \E r1, r2 \in Requests :
        /\ r1 # r2
        /\ requests[r1].status = 200
        /\ requests[r2].status = 200
        /\ requests[r1].filename = requests[r2].filename
        /\ requests[r1].timestamp = requests[r2].timestamp
        /\ requests[r1].unique_id # requests[r2].unique_id
        /\ requests[r1].pdf_path # requests[r2].pdf_path
        /\ {requests[r1].pdf_filename, requests[r2].pdf_filename} \subseteq static

-----------------------------------------------------------------------------
(* The claim about download_pdf, checked under SpecDownload. *)

\* C5: the path download_pdf resolves always denotes an entry directly inside the
\* output directory (never the directory itself, its parent or a place outside
\* it), and the handler answers 404 when there is no such file.
C5_ResolvesInsideStatic ==
    download.status # 0 =>
        LET at == Resolve(download.pdf_path)
        IN  /\ Len(at) = 2
            /\ at[1] = StaticDir
            /\ at[2] \notin static => download.status = 404

-----------------------------------------------------------------------------
(* The claims about clean_text, checked under SpecClean. *)

\* The sanitization of a str: the characters outside the class removed, the runs
\* of whitespace collapsed, the result trimmed.
Sanitize(s) == Strip(CollapseWhitespace(RemoveDisallowed(s)))

\* C7: for a str, None or a number, clean_text returns the sanitization of the
\* stringified input: None gives the empty str, any other value its str().
C7_CleanTextSanitizesStringified ==
    (clean_pc \in {"cleaned", "done"} /\ text.t \in {"str", "null", "num"}) =>
        cleaned = Sanitize(IF text.t = "null" THEN <<>> ELSE PyStr(text))

\* C8: clean_text is idempotent: clean_text(clean_text(x)) = clean_text(x).
C8_CleanTextIdempotent == clean_pc = "done" => recleaned = cleaned

\* A text the sanitizer changed, to a non-empty text, has been cleaned twice.
C8_Witness ==
    /\ clean_pc = "done"
    /\ text.t = "str"
    /\ cleaned # <<>>
    /\ cleaned # text.s
    /\ recleaned = cleaned

-----------------------------------------------------------------------------
(* The claims about parse_resume, checked under SpecExtract. *)

\* Every field of the schema is there, empty in its expected shape.
AllFieldsEmpty(d) ==
    /\ d.t = "dict"
    /\ \A key \in SchemaFields : HasKey(d, key)
    /\ \A key \in ScalarFields : Get(d, key, Null) = Str(<<>>)
    /\ \A key \in ListFields : Get(d, key, Null) = List(<<>>)
    /\ \A key \in MappingFields : Get(d, key, Null) = Dict(<<>>)

\* C2: when the call to the model fails or its reply is no JSON object,
\* parse_resume returns a record with every field of the schema empty in its
\* expected shape and a non-empty parsing_error.
C2_FailureGivesEmptyRecord ==
    (extract_pc = "parsed" /\ (~reply.ok \/ reply.parsed.t # "dict")) =>
        /\ AllFieldsEmpty(data)
        /\ HasKey(data, "parsing_error")
        /\ Get(data, "parsing_error", Null).t = "str"
        /\ Get(data, "parsing_error", Null).s # <<>>

\* A reply that parsed to a list, not an object, has been turned into the default
\* record.
C2_Witness ==
    /\ extract_pc = "parsed"
    /\ reply.ok
    /\ reply.parsed.t = "list"
    /\ AllFieldsEmpty(data)
    /\ HasKey(data, "parsing_error")

SanitizedLeaf(v) == v.t = "str" /\ v.s = Sanitize(v.s)

\* The value of a field has the shape the schema gives the field.
WellShaped(key, v) ==
    IF key \in MappingFields
    THEN v.t = "dict" /\ \A i \in DOMAIN v.items : SanitizedLeaf(v.items[i].v)
    ELSE IF key \in ListFields
    THEN /\ v.t = "list"
         /\ \A i \in DOMAIN v.items :
               \/ SanitizedLeaf(v.items[i])
               \/ /\ v.items[i].t = "dict"
                  /\ \A j \in DOMAIN v.items[i].items : SanitizedLeaf(v.items[i].items[j].v)
    ELSE SanitizedLeaf(v)

\* C3: after parse_resume and the re-parsing of the string fields, for every JSON
\* object the model returns, every leaf is a sanitized str and social and other
\* are mappings, work, education, projects, certifications and achievements
\* sequences.
C3_NormalizedRecordWellShaped ==
    (extract_pc = "normalized" /\ reply.ok /\ reply.parsed.t = "dict") =>
        \A i \in DOMAIN data.items : WellShaped(data.items[i].k, data.items[i].v)

-----------------------------------------------------------------------------
(* The claims about generate_pdf_reportlab, checked under SpecRender. *)

HeadingAt(i, title) == story[i] = Heading(title)

HasHeading(title) == \E i \in DOMAIN story : HeadingAt(i, title)

\* The rows of the table that follows the heading of the contact block.
ContactTableRows ==
    IF \E i \in DOMAIN story :
          HeadingAt(i, "Contact Information") /\ i < Len(story) /\ story[i + 1].kind = "Table"
    THEN story[(CHOOSE i \in DOMAIN story : HeadingAt(i, "Contact Information")) + 1].rows
    ELSE <<>>

\* C9: the contact block is there when one of the trimmed joined name, email,
\* phone and location is non-empty, left out only when all four are empty, and
\* each non-empty one has its own row.
C9_ContactBlockWhenAnyContact ==
    render_pc = "returned_true" =>
        LET name == FullName(record)
            email == safe_get(record, "email")
            phone == safe_get(record, "phone")
            location == safe_get(record, "location")
        IN  /\ HasHeading("Contact Information")
                <=> (name # <<>> \/ email # <<>> \/ phone # <<>> \/ location # <<>>)
            /\ name # <<>> => Row("Name:", name) \in Range(ContactTableRows)
            /\ email # <<>> => Row("Email:", email) \in Range(ContactTableRows)
            /\ phone # <<>> => Row("Phone:", phone) \in Range(ContactTableRows)
            /\ location # <<>> => Row("Location:", location) \in Range(ContactTableRows)

SectionTitles ==
    {"Work Experience", "Education", "Projects", "Certifications", "Achievements",
     "Social Links", "Other Information"}

\* C10: the heading of a section is in the story only when a non-empty content
\* element of the section follows it; a record with empty work has no Work
\* Experience heading.
C10_HeadingOnlyWithContent ==
    render_pc = "returned_true" =>
        /\ \A i \in DOMAIN story :
              (story[i].kind = "Heading" /\ story[i].text[1] \in SectionTitles) =>
                  /\ i < Len(story)
                  /\ \/ story[i + 1].kind = "Paragraph" /\ story[i + 1].text # <<>>
                     \/ story[i + 1].kind = "Table" /\ story[i + 1].rows # <<>>
        /\ safe_list_get(record, "work") = <<>> => ~HasHeading("Work Experience")
-----------------------------------------------------------------------------
(* The claim about the download of an upload, checked under SpecRoundTrip. *)

\* C11: the download_url of a successful upload resolves to the file the upload
\* wrote: the generated filename is a fixed point of the sanitization of
\* download_pdf, which so looks up exactly static/<generated filename>, the path
\* written, and finds the file.
C11_DownloadUrlResolves ==
    /\ (requests[Uploader].pc = "done" /\ requests[Uploader].status = 200) =>
          /\ RouteMatches(requests[Uploader].download_url)
          /\ RouteFilename(requests[Uploader].download_url) = requests[Uploader].pdf_filename
    /\ download.status # 0 =>
          /\ download.filename = requests[Uploader].pdf_filename
          /\ download.safe_filename = download.filename
          /\ download.pdf_path = requests[Uploader].pdf_path
          /\ Resolve(download.pdf_path) = <<StaticDir, requests[Uploader].pdf_filename>>
          /\ download.status = 200

\* An upload whose filename the sanitization had to change (dots and a slash) has
\* been processed and its download_url followed to the file.
C11_Witness ==
    /\ requests[Uploader].filename # requests[Uploader].safe_filename
    /\ requests[Uploader].pdf_filename \in static
    /\ download.status = 200
    /\ download.pdf_path = requests[Uploader].pdf_path
====
